---------------------------- MODULE Spec2Model ----------------------------
(***************************************************************************)
(* Model of the meeting-minutes generator: the OpenAIClient of minNode.py  *)
(* (client lifecycle, generation, sanitization, fallback), the Word        *)
(* document extractor of minNode.py, and the Markdown formatter and the    *)
(* generation step of main() of minApp.py.                                 *)
(*                                                                         *)
(* Text is a sequence of atoms.  The atom " " is one whitespace character; *)
(* every other atom is a fragment of text with no whitespace at either     *)
(* end ("a", "0", a header line, an exception message).  Python's str      *)
(* operations are modelled on these sequences: strip removes the           *)
(* whitespace atoms at both ends, join interleaves a separator, `in` is    *)
(* contiguous sub-sequence search.                                         *)
(*                                                                         *)
(* A JSON value is a record [t, n, s, e]: t is the type tag ("str", "int", *)
(* "null", "list"), n the integer, s the text, e the list elements.  A     *)
(* dict is a sequence of items [k, v] with distinct keys, in insertion     *)
(* order.                                                                  *)
(***************************************************************************)
EXTENDS Integers, Sequences, FiniteSets, TLC

\* ------------------------------------------------------------- bounds ----
MaxStrLen  == 2     \* longest text drawn for an input string
MaxListLen == 2     \* longest list drawn for a list field
MaxKeys    == 2     \* most keys in a drawn dict
MaxCalls   == 3     \* cap on the counted provider calls
MaxParas   == 2     \* most paragraphs in a drawn Word document
MaxCells   == 2     \* most table cells, over all tables, in a drawn Word document

\* --------------------------------------------------------------- text ----
Char == {" ", "a"}

IsSpace(c) == c = " "

RECURSIVE SeqsUpTo(_, _)
SeqsUpTo(S, n) ==
  IF n = 0 THEN {<<>>}
  ELSE LET shorter == SeqsUpTo(S, n - 1)
       IN  shorter \cup {Append(q, x) : q \in {r \in shorter : Len(r) = n - 1}, x \in S}

Texts == SeqsUpTo(Char, MaxStrLen)

\* str.lstrip()
RECURSIVE LStrip(_)
LStrip(s) ==
  IF s = <<>> THEN s
  ELSE IF IsSpace(Head(s)) THEN LStrip(Tail(s)) ELSE s

\* str.rstrip()
RECURSIVE RStrip(_)
RStrip(s) ==
  IF s = <<>> THEN s
  ELSE IF IsSpace(s[Len(s)]) THEN RStrip(SubSeq(s, 1, Len(s) - 1)) ELSE s

\* a strip that removes one leading whitespace character at most
StripOneLeading(s) == IF s # <<>> /\ IsSpace(Head(s)) THEN Tail(s) ELSE s

\* str.strip()
Strip(s) == RStrip(LStrip(s))

\* sep.join(parts)
RECURSIVE Join(_, _)
Join(sep, parts) ==
  IF parts = <<>> THEN <<>>
  ELSE IF Len(parts) = 1 THEN parts[1]
  ELSE parts[1] \o sep \o Join(sep, Tail(parts))

\* needle in hay
Contains(hay, needle) ==
  \E i \in 1..(Len(hay) - Len(needle) + 1) :
     SubSeq(hay, i, i + Len(needle) - 1) = needle

\* ------------------------------------------------------------- values ----
StrV(s)  == [t |-> "str",  n |-> 0, s |-> s,    e |-> <<>>]
IntV(n)  == [t |-> "int",  n |-> n, s |-> <<>>, e |-> <<>>]
NullV    == [t |-> "null", n |-> 0, s |-> <<>>, e |-> <<>>]
ListV(e) == [t |-> "list", n |-> 0, s |-> <<>>, e |-> e]

Digits == <<"0", "1", "2", "3", "4", "5", "6", "7", "8", "9">>

RECURSIVE IntStr(_)
IntStr(n) ==
  IF n < 0 THEN <<"-">> \o IntStr(0 - n)
  ELSE IF n < 10 THEN <<Digits[n + 1]>>
  ELSE IntStr(n \div 10) \o <<Digits[(n % 10) + 1]>>

\* str(v) of a scalar
Str(v) ==
  CASE v.t = "str"  -> v.s
    [] v.t = "int"  -> IntStr(v.n)
    [] v.t = "null" -> <<"None">>

\* bool(v)
Truthy(v) ==
  CASE v.t = "str"  -> v.s # <<>>
    [] v.t = "int"  -> v.n # 0
    [] v.t = "null" -> FALSE
    [] v.t = "list" -> v.e # <<>>

\* -------------------------------------------------------------- dicts ----
Item(k, v) == [k |-> k, v |-> v]

HasKey(d, k) == \E i \in 1..Len(d) : d[i].k = k

\* dict.get(k, default)
Get(d, k, default) ==
  IF HasKey(d, k) THEN d[CHOOSE i \in 1..Len(d) : d[i].k = k].v ELSE default

KeysOf(d) == {d[i].k : i \in 1..Len(d)}

\* ------------------------------------------------- canonical schema ------
ListKeys == <<"participants", "discussion_points", "outcomes_or_decisions", "next_steps">>

CanonKeys == <<"summary">> \o ListKeys

NoSummary == <<"No summary available.">>

SentinelPhrase == <<"Could not automatically generate minutes">>

\* -------------------------------------------- OpenAIClient._clean_minutes -
\* [str(p).strip() for p in xs if str(p).strip()] keeping the blank entries
RECURSIVE CleanListKeepBlank(_)
CleanListKeepBlank(xs) ==
  IF xs = <<>> THEN <<>>
  ELSE <<StrV(Strip(Str(Head(xs))))>> \o CleanListKeepBlank(Tail(xs))

\* [str(p).strip() for p in xs if str(p).strip()]
RECURSIVE CleanList(_)
CleanList(xs) ==
  IF xs = <<>> THEN <<>>
  ELSE LET p == Strip(Str(Head(xs)))
       IN  (IF p # <<>> THEN <<StrV(p)>> ELSE <<>>) \o CleanList(Tail(xs))

\* str(minutes.get("summary", "")).strip() or "No summary available."
CleanSummary(minutes) ==
  LET s == Strip(Str(Get(minutes, "summary", StrV(<<>>))))
  IN  IF s # <<>> THEN s ELSE NoSummary

Iterable(v) == v.t = "list"

NotIterableText(v) ==
  IF v.t = "null" THEN <<"'NoneType' object is not iterable">>
  ELSE <<"'int' object is not iterable">>

\* an exception: its class and str(e); NoExc when nothing was raised
NoExc == [raised |-> FALSE, type |-> "", text |-> <<>>]

Exc(type, text) == [raised |-> TRUE, type |-> type, text |-> text]

\* the exception _clean_minutes raises on the dict minutes, if any: the
\* comprehensions run in the order of the dict literal and the first list
\* field holding a non-iterable raises TypeError
CleanRaises(minutes) ==
  LET bad == {i \in 1..Len(ListKeys) : ~Iterable(Get(minutes, ListKeys[i], ListV(<<>>)))}
  IN  IF bad = {} THEN NoExc
      ELSE LET i == CHOOSE j \in bad : \A m \in bad : j <= m
           IN  Exc("TypeError", NotIterableText(Get(minutes, ListKeys[i], ListV(<<>>))))

\* _clean_minutes(minutes), for a dict on which it does not raise
CleanMinutes(minutes) ==
  << Item("summary", StrV(CleanSummary(minutes))) >>
  \o [i \in 1..Len(ListKeys) |->
        Item(ListKeys[i], ListV(CleanList(Get(minutes, ListKeys[i], ListV(<<>>)).e)))]

\* ------------------------------------ OpenAIClient._create_fallback_minutes
FallbackSummary == SentinelPhrase \o <<".", " ", "Manual review required.">>

\* a fallback record over the canonical five fields, all lists empty
FallbackCanonical ==
  << Item("summary", StrV(FallbackSummary)),
     Item("participants", ListV(<<>>)),
     Item("discussion_points", ListV(<<>>)),
     Item("outcomes_or_decisions", ListV(<<>>)),
     Item("next_steps", ListV(<<>>)) >>

CreateFallbackMinutes ==
  << Item("summary", StrV(FallbackSummary)),
     Item("participants", ListV(<<>>)),
     Item("key_topics", ListV(<<StrV(<<"Manual review required">>)>>)),
     Item("decisions", ListV(<<>>)),
     Item("action_items", ListV(<<>>)),
     Item("next_steps", ListV(<<StrV(<<"Review transcript manually">>)>>)) >>

\* ------------------------------------- minApp.format_minutes_as_markdown --
\* the header lines, without the emoji each carries after "## "
Header(k) ==
  CASE k = "summary"               -> <<"## Summary">>
    [] k = "participants"          -> <<"## Participants">>
    [] k = "discussion_points"     -> <<"## Discussion Points">>
    [] k = "outcomes_or_decisions" -> <<"## Outcomes or Decisions">>
    [] k = "next_steps"            -> <<"## Next Steps">>

NL == <<"\n">>

\* "\n".join(f"- {p}" for p in xs)
Bullets(xs) == Join(NL, [i \in 1..Len(xs) |-> <<"-", " ">> \o Str(xs[i])])

\* the (header, content, truthiness of content) triples of `sections`
Sections(minutes) ==
  LET summary == Get(minutes, "summary", StrV(<<>>))
  IN  << [header |-> Header("summary"), content |-> Str(summary), keep |-> Truthy(summary)] >>
      \o [i \in 1..Len(ListKeys) |->
            LET body == Bullets(Get(minutes, ListKeys[i], ListV(<<>>)).e)
            IN  [header |-> Header(ListKeys[i]), content |-> body, keep |-> body # <<>>]]

\* the exception format_minutes_as_markdown raises, if any
FormatRaises(minutes) == CleanRaises(minutes)

\* a formatter whose sections follow the key order of the input
FormatInputOrder(minutes) ==
  LET known == SelectSeq(minutes, LAMBDA it : \E j \in 1..Len(CanonKeys) : CanonKeys[j] = it.k)
      kept  == SelectSeq(known, LAMBDA it : Truthy(it.v))
  IN  Join(<<"\n", "\n">>,
           [i \in 1..Len(kept) |->
              Header(kept[i].k) \o NL \o
              (IF kept[i].k = "summary" THEN Str(kept[i].v) ELSE Bullets(kept[i].v.e))])

\* format_minutes_as_markdown(minutes), for a dict on which it does not raise
FormatMinutesAsMarkdown(minutes) ==
  LET kept == SelectSeq(Sections(minutes), LAMBDA sec : sec.keep)
  IN  Join(<<"\n", "\n">>, [i \in 1..Len(kept) |-> kept[i].header \o NL \o kept[i].content])

\* ------------------------------------------------------------- state -----
VARIABLES
  client,            \* OpenAIClient.client is not None
  last_error,        \* OpenAIClient.last_error: [some, s], some = FALSE for None
  calls,             \* provider calls issued so far (capped at MaxCalls)
  op,                \* the operation that completed last
  arg_key,           \* the credential passed to the last set_api_key
  exc,               \* the exception raised inside that operation, if any
  propagated,        \* the exception that operation raised to its caller, if any
  ret_ok,            \* the boolean it returned (set_api_key, test_connection)
  ret_msg,           \* the message test_connection returned
  ret_minutes,       \* the dict generate_meeting_minutes returned
  session_minutes,   \* st.session_state.minutes: [present, d]
  shown_error,       \* the text of the st.error main() showed in this run
  minutes,           \* the dict handed to _clean_minutes / the formatter
  rpc,               \* position of the record pipeline
  cleaned,           \* _clean_minutes(minutes)
  recleaned,         \* _clean_minutes(cleaned)
  markdown_content,  \* the formatter's output
  document,          \* the Word document: [paragraphs, tables, fail_at]
  dpc,               \* position of the extraction
  text_out           \* the extractor's return value

genVars  == <<client, last_error, calls, op, arg_key, exc, propagated, ret_ok, ret_msg, ret_minutes>>
appVars  == <<session_minutes, shown_error>>
recVars  == <<minutes, rpc, cleaned, recleaned, markdown_content>>
docxVars == <<document, dpc, text_out>>
vars     == <<genVars, appVars, recVars, docxVars>>

None == [some |-> FALSE, s |-> <<>>]

Some(s) == [some |-> TRUE, s |-> s]

Absent == [present |-> FALSE, d |-> <<>>]

Present(d) == [present |-> TRUE, d |-> d]

RecIdle ==
  /\ minutes = <<>>
  /\ rpc = "idle"
  /\ cleaned = <<>>
  /\ recleaned = <<>>
  /\ markdown_content = <<>>

\* ------------------------------------------------------ drawn inputs -----
InputKeys == {CanonKeys[i] : i \in 1..Len(CanonKeys)} \cup {"key_topics"}

\* list elements: every text, and a non-string
Elems == {StrV(s) : s \in Texts} \cup {IntV(0)}

\* every value of a list field: the lists of at most n elements, and null
ListVals(n) == {ListV(e) : e \in SeqsUpTo(Elems, n)} \cup {NullV}

SummaryVals == {StrV(s) : s \in Texts} \cup {IntV(0), NullV}

RichVals(k, n) == IF k = "summary" THEN SummaryVals ELSE ListVals(n)

\* the values the fields of a dict of several keys are drawn from
PlainVals(k) ==
  IF k = "summary" THEN {StrV(<<"a">>), StrV(<<" ">>)}
  ELSE { ListV(<<StrV(<<"a">>)>>),
         ListV(<<StrV(<<" ">>), StrV(<<" ", "a">>)>>),
         ListV(<<StrV(<<" ">>), StrV(<<>>)>>) }

\* the dicts of exactly n keys, in every key order, over plain values
RECURSIVE PlainDicts(_)
PlainDicts(n) ==
  IF n = 0 THEN {<<>>}
  ELSE UNION { UNION { {Append(d, Item(k, v)) : v \in PlainVals(k)}
                       : k \in InputKeys \ KeysOf(d) }
               : d \in PlainDicts(n - 1) }

\* the dicts of one key over every value of that key, and the dicts of at
\* most keys keys, in every key order, over plain values
Docs(keys, n) ==
  UNION { {<<Item(k, v)>> : v \in RichVals(k, n)} : k \in InputKeys }
  \cup UNION {PlainDicts(m) : m \in 0..keys}

\* ------------------------------------------ record pipeline (pure) -------
RecInit ==
  /\ minutes \in Docs(MaxKeys, MaxListLen)
  /\ rpc = "input"
  /\ cleaned = <<>>
  /\ recleaned = <<>>
  /\ markdown_content = <<>>

\* _clean_minutes(minutes) on the drawn dict
Clean ==
  /\ rpc = "input"
  /\ IF CleanRaises(minutes).raised
       THEN rpc' = "clean_raised" /\ cleaned' = cleaned
       ELSE rpc' = "cleaned" /\ cleaned' = CleanMinutes(minutes)
  /\ UNCHANGED <<minutes, recleaned, markdown_content>>

\* _clean_minutes applied to its own result
CleanAgain ==
  /\ rpc = "cleaned"
  /\ rpc' = "recleaned"
  /\ recleaned' = CleanMinutes(cleaned)
  /\ UNCHANGED <<minutes, cleaned, markdown_content>>

\* format_minutes_as_markdown(minutes) on the drawn dict
FormatRaw ==
  /\ rpc = "input"
  /\ IF FormatRaises(minutes).raised
       THEN rpc' = "format_raised" /\ markdown_content' = markdown_content
       ELSE rpc' = "formatted" /\ markdown_content' = FormatMinutesAsMarkdown(minutes)
  /\ UNCHANGED <<minutes, cleaned, recleaned>>

\* format_minutes_as_markdown on the sanitized record
FormatCleaned ==
  /\ rpc = "cleaned"
  /\ rpc' = "cleaned_formatted"
  /\ markdown_content' = FormatMinutesAsMarkdown(cleaned)
  /\ UNCHANGED <<minutes, cleaned, recleaned>>

GenIdle ==
  /\ client = FALSE
  /\ last_error = None
  /\ calls = 0
  /\ op = "idle"
  /\ arg_key = None
  /\ exc = NoExc
  /\ propagated = NoExc
  /\ ret_ok = FALSE
  /\ ret_msg = <<>>
  /\ ret_minutes = <<>>

AppIdle ==
  /\ session_minutes = Absent
  /\ shown_error = None

DocxIdle ==
  /\ document = [paragraphs |-> <<>>, tables |-> <<>>, fail_at |-> 0]
  /\ dpc = "idle"
  /\ text_out = <<>>

InitRecord == RecInit /\ GenIdle /\ AppIdle /\ DocxIdle

NextRecord ==
  \/ Clean /\ UNCHANGED <<genVars, appVars, docxVars>>
  \/ CleanAgain /\ UNCHANGED <<genVars, appVars, docxVars>>
  \/ FormatRaw /\ UNCHANGED <<genVars, appVars, docxVars>>
  \/ FormatCleaned /\ UNCHANGED <<genVars, appVars, docxVars>>

SpecRecord == InitRecord /\ [][NextRecord]_vars

\* ------------------------------------- properties of the record pipeline --
\* the value stored under key k, read off the set of items
ValueOf(rec, k) == (CHOOSE it \in {rec[i] : i \in 1..Len(rec)} : it.k = k).v

ElemsOf(rec, k) == IF k \in KeysOf(rec) THEN ValueOf(rec, k).e ELSE <<>>

AllSpace(s) == \A i \in 1..Len(s) : IsSpace(s[i])

\* s without its leading and trailing whitespace, by position
Trimmed(s) ==
  IF AllSpace(s) THEN <<>>
  ELSE LET solid == {i \in 1..Len(s) : ~IsSpace(s[i])}
           lo == CHOOSE i \in solid : \A j \in solid : i <= j
           hi == CHOOSE i \in solid : \A j \in solid : j <= i
       IN  SubSeq(s, lo, hi)

\* the elements of xs as trimmed strings, blank ones removed, order kept
TrimmedNonBlank(xs) ==
  SelectSeq([i \in 1..Len(xs) |-> StrV(Trimmed(Str(xs[i])))], LAMBDA v : v.s # <<>>)

SummaryText(rec) == IF "summary" \in KeysOf(rec) THEN Str(ValueOf(rec, "summary")) ELSE <<>>

\* C5: a sanitized record has exactly the five canonical fields; each list
\* field holds the input's elements as trimmed strings, blank ones removed
\* and order kept (empty when the field is missing); summary is the trimmed
\* string form of the input summary, or "No summary available." when that
\* is empty; keys outside the schema are gone.
C5_SanitizeShape ==
  rpc = "cleaned" =>
    /\ [i \in 1..Len(cleaned) |-> cleaned[i].k] = CanonKeys
    /\ \A i \in 1..Len(ListKeys) :
         /\ ValueOf(cleaned, ListKeys[i]).t = "list"
         /\ ValueOf(cleaned, ListKeys[i]).e = TrimmedNonBlank(ElemsOf(minutes, ListKeys[i]))
    /\ ValueOf(cleaned, "summary") =
         StrV(IF Trimmed(SummaryText(minutes)) = <<>> THEN NoSummary
              ELSE Trimmed(SummaryText(minutes)))

\* a sanitized record whose input had an extra key and a list field with a
\* blank entry that was dropped and a padded or non-string entry that was kept
C5_Witness ==
  /\ rpc = "cleaned"
  /\ "key_topics" \in KeysOf(minutes)
  /\ \E i \in 1..Len(ListKeys) :
       LET xs == ElemsOf(minutes, ListKeys[i])
       IN  /\ Len(xs) = 2
           /\ Len(ValueOf(cleaned, ListKeys[i]).e) = 1
           /\ \A j \in 1..2 : ValueOf(cleaned, ListKeys[i]).e[1] # xs[j]

\* C6: sanitizing a sanitized record changes nothing.
C6_SanitizeIdempotent == rpc = "recleaned" => recleaned = cleaned

\* a record sanitized twice whose input had a blank entry next to a
\* non-string entry, so the first pass changed it
C6_Witness ==
  /\ rpc = "recleaned"
  /\ cleaned # minutes
  /\ \E i \in 1..Len(ListKeys) :
       LET xs == ElemsOf(minutes, ListKeys[i])
       IN  /\ \E j \in 1..Len(xs) : xs[j].t = "int"
           /\ \E j \in 1..Len(xs) : xs[j].t = "str" /\ xs[j].s # <<>> /\ AllSpace(xs[j].s)

\* the record the formatter was applied to
Formatted == IF rpc = "formatted" THEN minutes ELSE cleaned

HasFormatted == rpc \in {"formatted", "cleaned_formatted"}

\* field k of rec has content
NonEmptyField(rec, k) ==
  /\ k \in KeysOf(rec)
  /\ IF k = "summary" THEN Truthy(ValueOf(rec, k)) ELSE Len(ValueOf(rec, k).e) > 0

RECURSIVE BulletLines(_)
BulletLines(xs) ==
  IF Len(xs) = 1 THEN <<"-", " ">> \o Str(xs[1])
  ELSE BulletLines(SubSeq(xs, 1, Len(xs) - 1)) \o <<"\n", "-", " ">> \o Str(xs[Len(xs)])

Block(rec, k) ==
  Header(k) \o <<"\n">> \o
  (IF k = "summary" THEN Str(ValueOf(rec, k)) ELSE BulletLines(ValueOf(rec, k).e))

\* the blocks of the non-empty fields among the first n canonical keys
RECURSIVE BlocksUpTo(_, _)
BlocksUpTo(rec, n) ==
  IF n = 0 THEN <<>>
  ELSE LET before == BlocksUpTo(rec, n - 1)
       IN  IF ~NonEmptyField(rec, CanonKeys[n]) THEN before
           ELSE IF before = <<>> THEN Block(rec, CanonKeys[n])
           ELSE before \o <<"\n", "\n">> \o Block(rec, CanonKeys[n])

\* C7: the Markdown is the blank-line join of the header-plus-body blocks of
\* exactly the non-empty fields, in the order Summary, Participants,
\* Discussion Points, Outcomes/Decisions, Next Steps whatever the key order
\* of the record, one "- item" line per entry; a record with no non-empty
\* field yields the empty string.
C7_FormatLayout ==
  HasFormatted =>
    /\ markdown_content = BlocksUpTo(Formatted, Len(CanonKeys))
    /\ (\A i \in 1..Len(CanonKeys) : ~NonEmptyField(Formatted, CanonKeys[i]))
         => markdown_content = <<>>

\* a record formatted directly whose two non-empty fields are keyed in the
\* reverse of the section order
C7_Witness ==
  /\ rpc = "formatted"
  /\ Len(minutes) = 2
  /\ minutes[1].k = "next_steps" /\ NonEmptyField(minutes, "next_steps")
  /\ minutes[2].k = "summary" /\ NonEmptyField(minutes, "summary")
  /\ Contains(markdown_content, <<"\n", "\n">>)

\* list field k of rec is a non-empty list of nothing but blank strings
OnlyBlank(rec, k) ==
  /\ k \in KeysOf(rec)
  /\ ValueOf(rec, k).t = "list"
  /\ ValueOf(rec, k).e # <<>>
  /\ \A j \in 1..Len(ValueOf(rec, k).e) :
       ValueOf(rec, k).e[j].t = "str" /\ AllSpace(ValueOf(rec, k).e[j].s)

HeaderAtoms == {Header(CanonKeys[i])[1] : i \in 1..Len(CanonKeys)}

\* every header in md is followed by a line break and then by body text
NoEmptyBody(md) ==
  \A i \in 1..Len(md) :
    md[i] \in HeaderAtoms => i + 2 <= Len(md) /\ md[i + 1] = "\n" /\ md[i + 2] # "\n"

\* C8 as stated: a list field of only blank strings has no section in the
\* Markdown, whether the record was sanitized first or formatted directly,
\* and no section has an empty body.
C8_Original ==
  HasFormatted =>
    /\ \A i \in 1..Len(ListKeys) :
         OnlyBlank(minutes, ListKeys[i]) => ~Contains(markdown_content, Header(ListKeys[i]))
    /\ NoEmptyBody(markdown_content)

\* C8 amended: sanitize drops the blank entries and the Markdown of the
\* sanitized record has no section for the field; the formatter applied
\* directly to the record drops nothing and renders the section with one
\* "- " line per entry; no section has an empty body.
C8_BlankEntries ==
  /\ rpc = "cleaned" =>
       \A i \in 1..Len(ListKeys) :
         OnlyBlank(minutes, ListKeys[i]) => ValueOf(cleaned, ListKeys[i]).e = <<>>
  /\ rpc = "cleaned_formatted" =>
       \A i \in 1..Len(ListKeys) :
         OnlyBlank(minutes, ListKeys[i]) => ~Contains(markdown_content, Header(ListKeys[i]))
  /\ rpc = "formatted" =>
       \A i \in 1..Len(ListKeys) :
         OnlyBlank(minutes, ListKeys[i]) =>
           Contains(markdown_content,
                    Header(ListKeys[i]) \o <<"\n", "-", " ">> \o ValueOf(minutes, ListKeys[i]).e[1].s)
  /\ HasFormatted => NoEmptyBody(markdown_content)

\* a sanitized and formatted record whose input had a list field of two
\* blank strings, next to a field that does have a section
C8_Witness ==
  /\ rpc = "cleaned_formatted"
  /\ \E i \in 1..Len(ListKeys) :
       OnlyBlank(minutes, ListKeys[i]) /\ Len(ValueOf(minutes, ListKeys[i]).e) = 2
  /\ Contains(markdown_content, Header("summary") \o <<"\n", "a">>)

\* ------------------------------------------------------ OpenAIClient ------
Falsy(key) == ~key.some \/ key.s = <<>>

ApiKeys == {None, Some(<<>>), Some(<<"sk-test">>)}

\* outcomes of constructing OpenAI(api_key=...)
CtorOutcomes == {NoExc, Exc("OpenAIError", <<"invalid base_url">>)}

\* exceptions of a provider call; str(e) may be empty
TransportExcs == {Exc("APIConnectionError", <<"Connection error.">>), Exc("Exception", <<>>)}

\* outcomes of client.models.list()
ProbeOutcomes == {NoExc} \cup TransportExcs

\* _init_client that clears the client on a missing key but records no reason
InitClientNoReason(api_key, ctor) ==
  IF Falsy(api_key) THEN [client |-> FALSE, last_error |-> None]
  ELSE IF ctor.raised
    THEN [client |-> FALSE,
          last_error |-> Some(<<"Failed to initialize OpenAI client:", " ">> \o ctor.text)]
  ELSE [client |-> TRUE, last_error |-> None]

\* _init_client(api_key): the client and last_error it leaves
InitClient(api_key, ctor) ==
  IF Falsy(api_key)
    THEN [client |-> FALSE, last_error |-> Some(<<"OPENAI_API_KEY is missing">>)]
  ELSE IF ctor.raised
    THEN [client |-> FALSE,
          last_error |-> Some(<<"Failed to initialize OpenAI client:", " ">> \o ctor.text)]
  ELSE [client |-> TRUE, last_error |-> None]

\* self.last_error or "OpenAI client is not initialized"
ErrorOr(le, default) == IF le.some /\ le.s # <<>> THEN le.s ELSE default

\* test_connection that returns the failure without recording it
TestConnectionNoRecord(cl, le, probe) ==
  IF ~cl
    THEN [ok |-> FALSE, msg |-> ErrorOr(le, <<"OpenAI client is not initialized">>),
          last_error |-> le, exc |-> NoExc, called |-> FALSE]
  ELSE IF ~probe.raised
    THEN [ok |-> TRUE, msg |-> <<"Connection successful">>,
          last_error |-> le, exc |-> NoExc, called |-> TRUE]
  ELSE [ok |-> FALSE, msg |-> probe.text,
        last_error |-> le, exc |-> probe, called |-> TRUE]

\* test_connection() on a Generator with client cl and last_error le, when
\* client.models.list() has the outcome probe
TestConnectionResult(cl, le, probe) ==
  IF ~cl
    THEN [ok |-> FALSE, msg |-> ErrorOr(le, <<"OpenAI client is not initialized">>),
          last_error |-> le, exc |-> NoExc, called |-> FALSE]
  ELSE IF ~probe.raised
    THEN [ok |-> TRUE, msg |-> <<"Connection successful">>,
          last_error |-> le, exc |-> NoExc, called |-> TRUE]
  ELSE [ok |-> FALSE, msg |-> probe.text,
        last_error |-> Some(probe.text), exc |-> probe, called |-> TRUE]

\* a response body: malformed text, or a JSON document with a dict or a list
\* at the top
Body(json, top, d) == [json |-> json, top |-> top, d |-> d]

\* json.loads(content)
JsonLoads(body) ==
  IF body.json THEN [exc |-> NoExc, top |-> body.top, d |-> body.d]
  ELSE [exc |-> Exc("JSONDecodeError", <<"Expecting value: line 1 column 1 (char 0)">>),
        top |-> "", d |-> <<>>]

\* an except clause for JSON errors only
CatchesJsonOnly(e) == e.type = "JSONDecodeError"

\* except Exception: every exception class of the model derives from Exception
Catches(e) == TRUE

\* the first exception raised inside the try block of generate_meeting_minutes
RaisedInTry(response) ==
  IF response.exc.raised THEN response.exc
  ELSE LET parsed == JsonLoads(response.body)
       IN  IF parsed.exc.raised THEN parsed.exc
           ELSE IF parsed.top # "dict"
             THEN Exc("AttributeError", <<"'list' object has no attribute 'get'">>)
           ELSE CleanRaises(parsed.d)

\* generate_meeting_minutes(transcript) on a Generator with client cl and
\* last_error le, when the completion call has the outcome response; the
\* transcript is only passed on to the provider
GenerateResult(cl, le, response) ==
  IF ~cl
    THEN [minutes |-> CreateFallbackMinutes, last_error |-> le, exc |-> NoExc,
          propagated |-> NoExc, called |-> FALSE]
  ELSE LET e == RaisedInTry(response)
       IN  IF ~e.raised
             THEN [minutes |-> CleanMinutes(JsonLoads(response.body).d), last_error |-> le,
                   exc |-> NoExc, propagated |-> NoExc, called |-> TRUE]
           ELSE IF Catches(e)
             THEN [minutes |-> CreateFallbackMinutes, last_error |-> Some(e.text),
                   exc |-> e, propagated |-> NoExc, called |-> TRUE]
           ELSE [minutes |-> <<>>, last_error |-> le,
                 exc |-> e, propagated |-> e, called |-> TRUE]

\* the JSON documents the provider answers with
ProviderDocs ==
  { <<>>,
    << Item("summary", StrV(<<"Team", " ", "agreed.">>)),
       Item("participants", ListV(<<StrV(<<"Alice">>)>>)),
       Item("discussion_points", ListV(<<>>)),
       Item("outcomes_or_decisions", ListV(<<StrV(<<"Ship", " ", "v2">>)>>)),
       Item("next_steps", ListV(<<>>)) >>,
    << Item("participants", ListV(<<StrV(<<" ">>), StrV(<<" ", "Bob">>), IntV(0)>>)),
       Item("key_topics", ListV(<<StrV(<<"x">>)>>)) >>,
    << Item("summary", StrV(<<"Result:", " ">> \o SentinelPhrase)) >>,
    << Item("summary", StrV(<<"a">>)), Item("participants", NullV) >>,
    << Item("next_steps", IntV(0)) >> }

Bodies ==
  {Body(FALSE, "", <<>>), Body(TRUE, "list", <<>>)}
  \cup {Body(TRUE, "dict", d) : d \in ProviderDocs}

NoBody == Body(FALSE, "", <<>>)

\* outcomes of client.chat.completions.create(...)
Responses ==
  {[exc |-> e, body |-> NoBody] : e \in TransportExcs}
  \cup {[exc |-> NoExc, body |-> b] : b \in Bodies}

\* the state __init__ leaves: the key comes from the argument or the environment
GenInit ==
  \E key \in ApiKeys, ctor \in CtorOutcomes :
    /\ client = InitClient(key, ctor).client
    /\ last_error = InitClient(key, ctor).last_error
    /\ calls = 0
    /\ op = "init"
    /\ arg_key = key
    /\ exc = IF Falsy(key) THEN NoExc ELSE ctor
    /\ propagated = NoExc
    /\ ret_ok = FALSE
    /\ ret_msg = <<>>
    /\ ret_minutes = <<>>

\* set_api_key(api_key)
SetApiKey(api_key, ctor) ==
  /\ client' = InitClient(api_key, ctor).client
  /\ last_error' = InitClient(api_key, ctor).last_error
  /\ op' = "set_api_key"
  /\ arg_key' = api_key
  /\ exc' = IF Falsy(api_key) THEN NoExc ELSE ctor
  /\ propagated' = NoExc
  /\ ret_ok' = InitClient(api_key, ctor).client
  /\ ret_msg' = <<>>
  /\ ret_minutes' = <<>>
  /\ UNCHANGED calls

\* test_connection()
TestConnection(probe) ==
  LET r == TestConnectionResult(client, last_error, probe)
  IN  /\ r.called => calls < MaxCalls
      /\ last_error' = r.last_error
      /\ calls' = IF r.called THEN calls + 1 ELSE calls
      /\ op' = "test_connection"
      /\ exc' = r.exc
      /\ propagated' = NoExc
      /\ ret_ok' = r.ok
      /\ ret_msg' = r.msg
      /\ ret_minutes' = <<>>
      /\ UNCHANGED <<client, arg_key>>

\* generate_meeting_minutes(transcript)
GenerateMeetingMinutes(response) ==
  LET r == GenerateResult(client, last_error, response)
  IN  /\ r.called => calls < MaxCalls
      /\ last_error' = r.last_error
      /\ calls' = IF r.called THEN calls + 1 ELSE calls
      /\ op' = "generate_meeting_minutes"
      /\ exc' = r.exc
      /\ propagated' = r.propagated
      /\ ret_ok' = FALSE
      /\ ret_msg' = <<>>
      /\ ret_minutes' = r.minutes
      /\ UNCHANGED <<client, arg_key>>

Init == GenInit /\ AppIdle /\ RecIdle /\ DocxIdle

Next ==
  \/ \E api_key \in ApiKeys, ctor \in CtorOutcomes :
       SetApiKey(api_key, ctor) /\ UNCHANGED <<appVars, recVars, docxVars>>
  \/ \E probe \in ProbeOutcomes :
       TestConnection(probe) /\ UNCHANGED <<appVars, recVars, docxVars>>
  \/ \E response \in Responses :
       GenerateMeetingMinutes(response) /\ UNCHANGED <<appVars, recVars, docxVars>>

Spec == Init /\ [][Next]_vars

\* ------------------------------------------- properties of the Generator --
Generated == op = "generate_meeting_minutes"

NonEmptyError == last_error.some /\ last_error.s # <<>>

\* C1: generate_meeting_minutes raises nothing to its caller; when the
\* completion call, the JSON parsing or the sanitizing raised on a configured
\* Generator, it returns the fallback record, whose summary contains "Could
\* not automatically generate minutes", and last_error is that exception's text.
C1_GenerateNeverRaises ==
  Generated =>
    /\ ~propagated.raised
    /\ exc.raised =>
         /\ client
         /\ ret_minutes = CreateFallbackMinutes
         /\ ValueOf(ret_minutes, "summary") = StrV(FallbackSummary)
         /\ Contains(ValueOf(ret_minutes, "summary").s, SentinelPhrase)
         /\ last_error = Some(exc.text)

\* a generation on a configured Generator in which sanitizing raised on a
\* null list field
C1_Witness ==
  /\ Generated
  /\ client
  /\ exc.raised /\ exc.type = "TypeError"
  /\ last_error = Some(<<"'NoneType' object is not iterable">>)
  /\ ret_minutes = CreateFallbackMinutes

\* C2: a set_api_key with an empty or absent credential, or whose client
\* construction raises, leaves no client and a non-empty last_error; while
\* there is no client last_error stays non-empty, test_connection returns
\* (False, non-empty message), generate_meeting_minutes returns the fallback
\* record, and neither issues a provider call nor restores the client.
C2_FailsClosed ==
  /\ [](op = "set_api_key" /\ (Falsy(arg_key) \/ exc.raised) => ~client /\ ~ret_ok)
  /\ [](~client => NonEmptyError)
  /\ [][ ~client /\ op' = "test_connection" =>
           /\ ~ret_ok' /\ ret_msg' # <<>>
           /\ calls' = calls /\ ~client' /\ last_error' = last_error ]_vars
  /\ [][ ~client /\ op' = "generate_meeting_minutes" =>
           /\ ret_minutes' = CreateFallbackMinutes
           /\ calls' = calls /\ ~client' /\ last_error' = last_error ]_vars

\* a generation refused on a Generator that had issued provider calls before
\* a set_api_key with an empty credential cleared its client
C2_Witness ==
  /\ Generated
  /\ ~client
  /\ calls > 0
  /\ arg_key = Some(<<>>)
  /\ ret_minutes = CreateFallbackMinutes

\* the last test_connection or generate_meeting_minutes call succeeded
LastCallSucceeded ==
  \/ op = "test_connection" /\ ret_ok
  \/ Generated /\ client /\ ~exc.raised

\* C3 as stated: every operation overwrites last_error, so after a
\* successful test_connection or generate_meeting_minutes it holds no message.
C3_Original == LastCallSucceeded => ~last_error.some

\* C3 amended: set_api_key always overwrites last_error (None on success,
\* a non-empty reason on failure); test_connection and
\* generate_meeting_minutes overwrite it with the exception's text when the
\* provider call, the parsing or the sanitizing raised, and otherwise leave
\* it as it was.
C3_ErrorOverwrite ==
  /\ [](op = "set_api_key" => IF ret_ok THEN last_error = None ELSE NonEmptyError)
  /\ [][ op' \in {"test_connection", "generate_meeting_minutes"} =>
           IF exc'.raised THEN last_error' = Some(exc'.text)
           ELSE last_error' = last_error ]_vars

\* a successful test_connection after which last_error still holds the
\* message of an earlier failure
C3_Witness ==
  /\ op = "test_connection"
  /\ ret_ok
  /\ last_error = Some(<<"Connection error.">>)

\* generate_meeting_minutes returned the fallback record
ReturnedFallback == Generated /\ (~client \/ exc.raised)

NonEmptyListKeys(rec) ==
  {k \in KeysOf(rec) : ValueOf(rec, k).t = "list" /\ ValueOf(rec, k).e # <<>>}

CanonKeySet == {CanonKeys[i] : i \in 1..Len(CanonKeys)}

\* C4 as stated: in the fallback record every list field of the canonical
\* schema is empty and the only non-empty list is under a key outside it.
C4_Original ==
  ReturnedFallback =>
    /\ \A i \in 1..Len(ListKeys) : ElemsOf(ret_minutes, ListKeys[i]) = <<>>
    /\ Cardinality(NonEmptyListKeys(ret_minutes)) = 1
    /\ NonEmptyListKeys(ret_minutes) \cap CanonKeySet = {}

\* C4 amended: in the fallback record participants is empty,
\* discussion_points and outcomes_or_decisions are absent, and next_steps
\* holds the one entry "Review transcript manually"; the only other non-empty
\* list is the "Manual review required" marker under key_topics, a key
\* outside the canonical schema.
C4_FallbackLists ==
  ReturnedFallback =>
    /\ "participants" \in KeysOf(ret_minutes)
    /\ ElemsOf(ret_minutes, "participants") = <<>>
    /\ "discussion_points" \notin KeysOf(ret_minutes)
    /\ "outcomes_or_decisions" \notin KeysOf(ret_minutes)
    /\ ElemsOf(ret_minutes, "next_steps") = <<StrV(<<"Review transcript manually">>)>>
    /\ NonEmptyListKeys(ret_minutes) = {"next_steps", "key_topics"}
    /\ ElemsOf(ret_minutes, "key_topics") = <<StrV(<<"Manual review required">>)>>
    /\ "key_topics" \notin CanonKeySet

\* a fallback record returned because the response body was not JSON
C4_Witness ==
  /\ ReturnedFallback
  /\ exc.type = "JSONDecodeError"
  /\ Len(ret_minutes) = 6

\* ----------------------------------------------------- minApp.main --------
\* values of os.getenv("OPENAI_API_KEY")
EnvKeys == {None, Some(<<>>), Some(<<" ">>), Some(<<"sk-test">>), Some(<<"sk-test", " ">>)}

\* the text the run has to work on: the stripped text area or the extracted file
Transcripts == {<<>>, <<"Alice:", " ", "ship", " ", "v2">>}

\* the Generator after client.set_api_key(api_key) and client.test_connection()
Connected(env_key, ctor, probe) ==
  LET ic == InitClient(Some(Strip(env_key.s)), ctor)
      tc == TestConnectionResult(ic.client, ic.last_error, probe)
  IN  [client |-> ic.client, ok |-> tc.ok, msg |-> tc.msg, last_error |-> tc.last_error]

\* the check of main() on the returned record
LooksFailed(rec) == Contains(Str(Get(rec, "summary", StrV(<<>>))), SentinelPhrase)

\* a run of main() with no OPENAI_API_KEY in the environment: error and stop
MainMissingKey(env_key) ==
  /\ Falsy(env_key)
  /\ op' = "main_missing_key"
  /\ shown_error' = Some(<<"Missing OPENAI_API_KEY. Please create a .env file with your key.">>)
  /\ arg_key' = env_key
  /\ exc' = NoExc
  /\ ret_ok' = FALSE
  /\ ret_msg' = <<>>
  /\ ret_minutes' = <<>>
  /\ UNCHANGED <<client, last_error, calls, propagated, session_minutes, markdown_content>>

\* a run of main() stopped by the failed connection test
MainConnectionFailed(env_key, ctor, probe) ==
  LET c == Connected(env_key, ctor, probe)
  IN  /\ ~Falsy(env_key)
      /\ ~c.ok
      /\ op' = "main_connection_failed"
      /\ client' = c.client
      /\ last_error' = c.last_error
      /\ shown_error' = Some(<<"OpenAI connection failed:", " ">> \o c.msg)
      /\ arg_key' = Some(Strip(env_key.s))
      /\ exc' = NoExc
      /\ ret_ok' = c.ok
      /\ ret_msg' = c.msg
      /\ ret_minutes' = <<>>
      /\ UNCHANGED <<calls, propagated, session_minutes, markdown_content>>

\* the export tab: the Markdown of the record held in the session, if any
Displayed(session) ==
  IF session.present THEN FormatMinutesAsMarkdown(session.d) ELSE <<>>

\* a run of main() in which the Generate button is not pressed (it is
\* disabled while there is no transcript)
MainNoRequest(env_key, ctor, probe) ==
  LET c == Connected(env_key, ctor, probe)
  IN  /\ ~Falsy(env_key)
      /\ c.ok
      /\ op' = "main_no_request"
      /\ client' = c.client
      /\ last_error' = c.last_error
      /\ shown_error' = None
      /\ arg_key' = Some(Strip(env_key.s))
      /\ exc' = NoExc
      /\ ret_ok' = c.ok
      /\ ret_msg' = c.msg
      /\ ret_minutes' = <<>>
      /\ markdown_content' = Displayed(session_minutes)
      /\ UNCHANGED <<calls, propagated, session_minutes>>

\* a run of main() in which the Generate button is pressed
MainGenerate(env_key, ctor, probe, final_transcript, response) ==
  LET c == Connected(env_key, ctor, probe)
      g == GenerateResult(c.client, c.last_error, response)
  IN  /\ ~Falsy(env_key)
      /\ c.ok
      /\ final_transcript # <<>>
      /\ op' = "main_generate"
      /\ client' = c.client
      /\ last_error' = g.last_error
      /\ arg_key' = Some(Strip(env_key.s))
      /\ exc' = g.exc
      /\ ret_ok' = c.ok
      /\ ret_msg' = c.msg
      /\ ret_minutes' = g.minutes
      /\ IF LooksFailed(g.minutes)
           THEN /\ shown_error' =
                     Some(<<"Failed to generate minutes. Error:", " ">>
                          \o ErrorOr(g.last_error, <<"The AI could not process this transcript.">>))
                /\ UNCHANGED <<session_minutes, markdown_content>>
           ELSE /\ shown_error' = None
                /\ session_minutes' = Present(g.minutes)
                /\ markdown_content' = Displayed(Present(g.minutes))
      /\ UNCHANGED <<calls, propagated>>

InitApp == GenIdle /\ AppIdle /\ RecIdle /\ DocxIdle

NextApp ==
  \/ \E env_key \in EnvKeys :
       MainMissingKey(env_key)
       /\ UNCHANGED <<minutes, rpc, cleaned, recleaned, docxVars>>
  \/ \E env_key \in EnvKeys, ctor \in CtorOutcomes, probe \in ProbeOutcomes :
       MainConnectionFailed(env_key, ctor, probe)
       /\ UNCHANGED <<minutes, rpc, cleaned, recleaned, docxVars>>
  \/ \E env_key \in EnvKeys, ctor \in CtorOutcomes, probe \in ProbeOutcomes :
       MainNoRequest(env_key, ctor, probe)
       /\ UNCHANGED <<minutes, rpc, cleaned, recleaned, docxVars>>
  \/ \E env_key \in EnvKeys, ctor \in CtorOutcomes, probe \in ProbeOutcomes,
        final_transcript \in Transcripts, response \in Responses :
       MainGenerate(env_key, ctor, probe, final_transcript, response)
       /\ UNCHANGED <<minutes, rpc, cleaned, recleaned, docxVars>>

SpecApp == InitApp /\ [][NextApp]_vars

\* ------------------------------------------ properties of the session -----
\* C10: a generation request replaces the record in the session exactly when
\* the generation succeeded: after a successful generate_meeting_minutes the
\* session holds that call's sanitized record; after a failed one the run
\* halts with the error shown, the record held before is unchanged, and the
\* fallback record is never stored.
C10_SessionReplacedOnSuccess ==
  /\ [][ op' = "main_generate" =>
           IF ~exc'.raised
             THEN session_minutes' = Present(ret_minutes') /\ ~shown_error'.some
             ELSE /\ ret_minutes' = CreateFallbackMinutes
                  /\ shown_error'.some
                  /\ session_minutes' = session_minutes ]_vars
  /\ [](session_minutes.present => session_minutes.d # CreateFallbackMinutes)

\* ------------------------------------------ extract_text_from_docx --------
\* a Word document: paragraphs is a sequence of texts, tables a sequence of
\* tables, a table a sequence of rows, a row a sequence of cell texts;
\* fail_at = -1 when python-docx reads it without error, 0 when
\* docx.Document(file) raises, n > 0 when reading the n-th text raises
CellTexts == {<<" ">>, <<"x">>, <<" ", "y">>}

ParagraphTexts == {<<" ">>, <<"a">>, <<"b", " ">>}

RECURSIVE RowsOf(_)
RowsOf(n) ==
  IF n = 0 THEN {<<>>}
  ELSE {<<c>> \o r : c \in CellTexts, r \in RowsOf(n - 1)}

\* the tables of exactly n cells, every row non-empty
RECURSIVE TablesOf(_)
TablesOf(n) ==
  IF n = 0 THEN {<<>>}
  ELSE UNION { {<<r>> \o t : r \in RowsOf(j), t \in TablesOf(n - j)} : j \in 1..n }

\* the sequences of non-empty tables of exactly n cells altogether
RECURSIVE TableSeqsOf(_)
TableSeqsOf(n) ==
  IF n = 0 THEN {<<>>}
  ELSE UNION { {<<t>> \o ts : t \in TablesOf(j), ts \in TableSeqsOf(n - j)} : j \in 1..n }

RECURSIVE SumLen(_)
SumLen(seqs) == IF seqs = <<>> THEN 0 ELSE Len(Head(seqs)) + SumLen(Tail(seqs))

RECURSIVE CellCount(_)
CellCount(tables) ==
  IF tables = <<>> THEN 0 ELSE SumLen(Head(tables)) + CellCount(Tail(tables))

TextCount(paragraphs, tables) == Len(paragraphs) + CellCount(tables)

\* the documents of at most paras paragraphs and cells table cells, with
\* every point of failure
Documents(paras, cells) ==
  LET pss == SeqsUpTo(ParagraphTexts, paras)
      tss == UNION {TableSeqsOf(n) : n \in 0..cells}
  IN  UNION { {[paragraphs |-> d[1], tables |-> d[2], fail_at |-> f]
                 : f \in (0 - 1)..TextCount(d[1], d[2])}
              : d \in pss \X tss }

\* the inner loop: for cell in row.cells
RECURSIVE RowParts(_)
RowParts(row) ==
  IF row = <<>> THEN <<>>
  ELSE (IF Strip(Head(row)) # <<>> THEN <<Strip(Head(row))>> ELSE <<>>) \o RowParts(Tail(row))

\* the middle loop: for row in table.rows
RECURSIVE TableParts(_)
TableParts(table) ==
  IF table = <<>> THEN <<>> ELSE RowParts(Head(table)) \o TableParts(Tail(table))

\* the outer loop: for table in doc.tables
RECURSIVE TablesParts(_)
TablesParts(tables) ==
  IF tables = <<>> THEN <<>> ELSE TableParts(Head(tables)) \o TablesParts(Tail(tables))

\* the first loop: for paragraph in doc.paragraphs
RECURSIVE ParagraphParts(_)
ParagraphParts(paragraphs) ==
  IF paragraphs = <<>> THEN <<>>
  ELSE (IF Strip(Head(paragraphs)) # <<>> THEN <<Strip(Head(paragraphs))>> ELSE <<>>)
       \o ParagraphParts(Tail(paragraphs))

\* the first n texts of a table sequence, in reading order, as a one-row table
RECURSIVE FirstCells(_, _)
FirstCells(tables, n) ==
  IF n = 0 \/ tables = <<>> THEN <<>>
  ELSE IF Head(tables) = <<>> THEN FirstCells(Tail(tables), n)
  ELSE IF Head(Head(tables)) = <<>>
    THEN FirstCells(<<Tail(Head(tables))>> \o Tail(tables), n)
  ELSE <<Head(Head(Head(tables)))>>
       \o FirstCells(<<<<Tail(Head(Head(tables)))>> \o Tail(Head(tables))>> \o Tail(tables), n - 1)

\* text_parts when the n-th read raises: what the reads before it appended
PartsBefore(doc, n) ==
  IF n - 1 <= Len(doc.paragraphs) THEN ParagraphParts(SubSeq(doc.paragraphs, 1, n - 1))
  ELSE ParagraphParts(doc.paragraphs)
       \o RowParts(FirstCells(doc.tables, n - 1 - Len(doc.paragraphs)))

\* an extractor that returns what it had collected when the parsing raised
ExtractKeepsPartial(doc) ==
  IF doc.fail_at = 0 THEN [raised |-> FALSE, text |-> <<>>]
  ELSE IF doc.fail_at > 0
    THEN [raised |-> FALSE, text |-> Join(NL, PartsBefore(doc, doc.fail_at))]
  ELSE [raised |-> FALSE,
        text |-> Join(NL, ParagraphParts(doc.paragraphs) \o TablesParts(doc.tables))]

\* extract_text_from_docx(file): the whole body is inside try, and
\* except Exception returns ""
ExtractTextFromDocx(doc) ==
  IF doc.fail_at >= 0 THEN [raised |-> FALSE, text |-> <<>>]
  ELSE [raised |-> FALSE,
        text |-> Join(NL, ParagraphParts(doc.paragraphs) \o TablesParts(doc.tables))]

DocxInit ==
  /\ document \in Documents(MaxParas, MaxCells)
  /\ dpc = "input"
  /\ text_out = <<>>

Extract ==
  /\ dpc = "input"
  /\ dpc' = IF ExtractTextFromDocx(document).raised THEN "raised" ELSE "returned"
  /\ text_out' = ExtractTextFromDocx(document).text
  /\ UNCHANGED document

InitDocx == DocxInit /\ GenIdle /\ AppIdle /\ RecIdle

NextDocx == Extract /\ UNCHANGED <<genVars, appVars, recVars>>

SpecDocx == InitDocx /\ [][NextDocx]_vars

\* ------------------------------------------ properties of the extractor ---
\* the cell texts of the tables in table order, row-major within a table
AllCells(tables) ==
  LET n == CellCount(tables)
      \* position of the cell that has m cells before it
      Pos(m) ==
        CHOOSE p \in {<<t, r, c>> : t \in 1..Len(tables), r \in 1..MaxCells, c \in 1..MaxCells} :
          /\ p[2] <= Len(tables[p[1]])
          /\ p[3] <= Len(tables[p[1]][p[2]])
          /\ m = CellCount(SubSeq(tables, 1, p[1] - 1))
                 + SumLen(SubSeq(tables[p[1]], 1, p[2] - 1)) + (p[3] - 1)
  IN  [i \in 1..n |-> tables[Pos(i - 1)[1]][Pos(i - 1)[2]][Pos(i - 1)[3]]]

NonBlankTrimmed(texts) ==
  SelectSeq([i \in 1..Len(texts) |-> Trimmed(texts[i])], LAMBDA s : s # <<>>)

RECURSIVE Lines(_)
Lines(parts) ==
  IF parts = <<>> THEN <<>>
  ELSE IF Len(parts) = 1 THEN parts[1]
  ELSE Lines(SubSeq(parts, 1, Len(parts) - 1)) \o <<"\n">> \o parts[Len(parts)]

\* C9: the extraction never raises; it returns the trimmed non-blank
\* paragraph texts in document order, then the trimmed non-blank cell texts
\* in table order and row-major order, joined by single newlines, and the
\* empty string when the parsing raised at any point.
C9_DocxExtraction ==
  /\ dpc # "raised"
  /\ dpc = "returned" =>
       text_out = IF document.fail_at >= 0 THEN <<>>
                  ELSE Lines(NonBlankTrimmed(document.paragraphs)
                             \o NonBlankTrimmed(AllCells(document.tables)))

\* an extraction of a document with a blank and a non-blank paragraph and
\* two tables with different cell texts, neither blank
C9_Witness ==
  /\ dpc = "returned"
  /\ document.fail_at = 0 - 1
  /\ Len(document.paragraphs) = 2
  /\ AllSpace(document.paragraphs[1]) /\ ~AllSpace(document.paragraphs[2])
  /\ Len(document.tables) = 2
  /\ AllCells(document.tables)[1] # AllCells(document.tables)[2]
  /\ \A i \in 1..CellCount(document.tables) : ~AllSpace(AllCells(document.tables)[i])
  /\ text_out # <<>>
=============================================================================
